---- MODULE Spec2Model ----
(***************************************************************************)
(* Model of the Stripe webhook module of packages/stripe:                  *)
(*   - StripeModule.onModuleInit (stripe.module.ts): configuration guard,  *)
(*     lookup of the webhook service, the two discovery passes and the     *)
(*     installation of handleWebhook / handleConnectWebhook;               *)
(*   - the two dispatch closures handleWebhook / ConnectHandleWebhook and  *)
(*     the Promise.all join they await;                                    *)
(*   - StripePayloadService.tryHydratePayload (stripe.payload.service.ts). *)
(* onModuleInit is an async function: every action below is one           *)
(* synchronous run of its body between two awaits.  A dispatch closure is  *)
(* one synchronous run (filter, log, start every handler), after which     *)
(* the handlers settle one by one and Promise.all settles the call.        *)
(***************************************************************************)
EXTENDS Integers, Sequences, FiniteSets, Bags, TLC

\* ---------------------------------------------------------------- bounds
MaxMethods == 3      \* longest sequence of tagged methods discovery returns
MaxCalls == 2        \* dispatch calls made on the webhook service

\* ------------------------------------------------------------- universes
None == "undefined"

STRIPE_WEBHOOK_HANDLER == "STRIPE_WEBHOOK_HANDLER"
STRIPE_CONNECT_WEBHOOK_HANDLER == "STRIPE_CONNECT_WEBHOOK_HANDLER"
Markers == {STRIPE_WEBHOOK_HANDLER, STRIPE_CONNECT_WEBHOOK_HANDLER}

StripeWebhookType == {"account", "connect"}

\* types of the events delivered; charge.refunded is never delivered
EventTypes == {"charge.succeeded", "invoice.paid"}

\* values a secret of stripeSecrets can take: absent, empty, set
AccountSecrets == {None, "", "whsec_a"}
ConnectSecrets == {None, "whsec_c"}

\* discoveredMethod.parentClass.name of each component instance
ClassName(instance) ==
  CASE instance = "billing" -> "BillingService"
    [] instance = "invoices" -> "InvoiceService"
    [] instance = "billing2" -> "BillingService"

\* tagged provider methods the container may hold; meta[k] is the payload of
\* marker k on the method, None when the method does not carry the marker
Method(inst, name, pm, cm) ==
  [instance |-> inst, methodName |-> name,
   meta |-> [k \in Markers |-> IF k = STRIPE_WEBHOOK_HANDLER THEN pm ELSE cm]]

\* the tagged methods of the application, in the order discovery visits them
MethodPool ==
  << Method("billing", "onCharge", "charge.succeeded", None),
     Method("billing", "onConnectCharge", None, "charge.succeeded"),
     Method("invoices", "onPaid", "invoice.paid", None),
     Method("billing2", "onPaid", "invoice.paid", None),
     Method("invoices", "onAnyRefund", "charge.refunded", "charge.refunded") >>

\* the applications considered: any MaxMethods of the methods above
Containers ==
  { SelectSeq(MethodPool, LAMBDA m : m \in S) :
      S \in { T \in SUBSET { MethodPool[i] : i \in DOMAIN MethodPool } :
                Cardinality(T) <= MaxMethods } }

\* candidates for the providers registered under STRIPE_WEBHOOK_SERVICE
ServiceProviders ==
  { <<>>, <<"OtherProvider">>, <<"StripeWebhookService">>,
    <<"OtherProvider", "StripeWebhookService">> }

\* StripeModuleConfig: webhookConfig is optional (defined = FALSE when absent)
WebhookConfig(a, c, l) ==
  [defined |-> TRUE,
   stripeSecrets |-> [account |-> a, connect |-> c],
   loggingConfiguration |-> [logMatchingEventHandlers |-> l]]

NoWebhookConfig ==
  [defined |-> FALSE,
   stripeSecrets |-> [account |-> None, connect |-> None],
   loggingConfiguration |-> [logMatchingEventHandlers |-> FALSE]]

Configs ==
  { [webhookConfig |-> NoWebhookConfig] } \cup
  { [webhookConfig |-> WebhookConfig(a, c, l)] :
      a \in AccountSecrets, c \in ConnectSecrets, l \in BOOLEAN }

\* ------------------------------------------------------------ JS helpers
Falsy(v) == v = None \/ v = ""

Range(s) == { s[i] : i \in DOMAIN s }

RECURSIVE Concat(_)
Concat(ss) == IF ss = <<>> THEN <<>> ELSE Head(ss) \o Concat(Tail(ss))

\* lodash groupBy keys: one key per distinct value, in first-seen order
RECURSIVE GroupKeys(_)
GroupKeys(s) ==
  IF s = <<>> THEN <<>>
  ELSE LET k == ClassName(Head(s).discoveredMethod.instance)
           rest == GroupKeys(Tail(s))
       IN  <<k>> \o SelectSeq(rest, LAMBDA x : x # k)

groupBy(s, name) ==
  SelectSeq(s, LAMBDA x : ClassName(x.discoveredMethod.instance) = name)


\* ----------------------------------------------------------------- state
VARIABLES
  stripeModuleConfig,     \* the injected StripeModuleConfig
  serviceProviders,       \* providers carrying STRIPE_WEBHOOK_SERVICE
  container,              \* tagged provider methods, in discovery order
  pc,                     \* position of onModuleInit
  error,                  \* error onModuleInit threw, None if none
  logger,                 \* entries written by onModuleInit
  discoverCalls,          \* DiscoveryService calls made, in order
  webhookHandlers,        \* closure variable of handleWebhook
  ConnectWebhookHandlers, \* closure variable of ConnectHandleWebhook
  stripeWebhookService,   \* which dispatch functions have been installed
  calls,                  \* dispatch calls made on the webhook service
  hydrated                \* last tryHydratePayload call of the payload service

vars ==
  << stripeModuleConfig, serviceProviders, container, pc, error, logger,
     discoverCalls, webhookHandlers, ConnectWebhookHandlers,
     stripeWebhookService, calls, hydrated >>

environment == << stripeModuleConfig, serviceProviders, container >>

initState ==
  << pc, error, logger, discoverCalls, webhookHandlers,
     ConnectWebhookHandlers, stripeWebhookService >>

\* the dispatch calls made so far, each with the promises it started
Calls == BagToSet(calls)

\* no tryHydratePayload call has been made yet
NoHydration ==
  [called |-> FALSE, webhookType |-> None, signature |-> None,
   payload |-> None, secret |-> None, result |-> [ok |-> FALSE, type |-> None]]

Init ==
  /\ stripeModuleConfig \in Configs
  /\ serviceProviders \in ServiceProviders
  /\ container \in Containers
  /\ pc = "start"
  /\ error = None
  /\ logger = <<>>
  /\ discoverCalls = <<>>
  /\ webhookHandlers = <<>>
  /\ ConnectWebhookHandlers = <<>>
  /\ stripeWebhookService =
       [handleWebhook |-> "stub", handleConnectWebhook |-> "stub"]
  /\ calls = EmptyBag
  /\ hydrated = NoHydration

\* ------------------------------------------------------- discovery service
\* variant: the marker asked for is ignored, the primary marker is always used
providerMethodsWithPrimaryMeta(key) ==
  LET tagged == SelectSeq(container, LAMBDA m : m.meta[STRIPE_WEBHOOK_HANDLER] # None)
  IN  [i \in DOMAIN tagged |->
         [discoveredMethod |-> tagged[i],
          meta |-> tagged[i].meta[STRIPE_WEBHOOK_HANDLER]]]

\* variant: a marker is only looked up when its namespace has a secret
providerMethodsIfSecret(key) ==
  LET secrets == stripeModuleConfig.webhookConfig.stripeSecrets
      secret == IF key = STRIPE_WEBHOOK_HANDLER
                  THEN secrets.account ELSE secrets.connect
      tagged == IF Falsy(secret) THEN <<>>
                ELSE SelectSeq(container, LAMBDA m : m.meta[key] # None)
  IN  [i \in DOMAIN tagged |->
         [discoveredMethod |-> tagged[i], meta |-> tagged[i].meta[key]]]

\* DiscoveryService.providerMethodsWithMetaAtKey(key): the methods carrying
\* the marker, in discovery order, each with the marker's payload
providerMethodsWithMetaAtKey(key) ==
  LET tagged == SelectSeq(container, LAMBDA m : m.meta[key] # None)
  IN  [i \in DOMAIN tagged |->
         [discoveredMethod |-> tagged[i], meta |-> tagged[i].meta[key]]]

\* externalContextCreator.create(instance, handler, methodName, ...): a
\* callable bound to the owning instance
externalContextCreate(discoveredMethod) ==
  [instance |-> discoveredMethod.instance,
   methodName |-> discoveredMethod.methodName]

\* variant: only the first group is kept instead of flattening all groups
BuildHandlersFirstGroup(eventHandlerMeta) ==
  LET g == IF eventHandlerMeta = <<>> THEN <<>>
           ELSE groupBy(eventHandlerMeta, Head(GroupKeys(eventHandlerMeta)))
  IN  [i \in DOMAIN g |->
         [key |-> g[i].meta,
          handler |-> externalContextCreate(g[i].discoveredMethod)]]

\* flatten(Object.keys(grouped).map(x => grouped[x].map(...)))
BuildHandlers(eventHandlerMeta) ==
  LET keys == GroupKeys(eventHandlerMeta)
      perKey(x) ==
        LET g == groupBy(eventHandlerMeta, x)
        IN  [i \in DOMAIN g |->
               [key |-> g[i].meta,
                handler |-> externalContextCreate(g[i].discoveredMethod)]]
  IN  Concat([i \in DOMAIN keys |-> perKey(keys[i])])

\* one "Registering ... from X" entry per group
RegisterLogs(eventHandlerMeta, text) ==
  LET keys == GroupKeys(eventHandlerMeta)
  IN  [i \in DOMAIN keys |-> [level |-> "log", msg |-> text, arg |-> keys[i]]]

\* ---------------------------------------------------------- onModuleInit
\* variant: the early return of line 93 is missing
WebhookConfigMissingNever == FALSE

\* line 93: if (!this.stripeModuleConfig.webhookConfig) return
WebhookConfigMissing == ~stripeModuleConfig.webhookConfig.defined

\* variant: a secret counts as missing only when undefined, not when empty
noOneSecretProvidedUndefinedOnly ==
  /\ stripeModuleConfig.webhookConfig.defined
  /\ stripeModuleConfig.webhookConfig.stripeSecrets.account = None
  /\ stripeModuleConfig.webhookConfig.stripeSecrets.connect = None

\* lines 97-100
noOneSecretProvided ==
  /\ stripeModuleConfig.webhookConfig.defined
  /\ Falsy(stripeModuleConfig.webhookConfig.stripeSecrets.account)
  /\ Falsy(stripeModuleConfig.webhookConfig.stripeSecrets.connect)

\* lines 93-115: the guard, up to the first await
Validate ==
  /\ pc = "start"
  /\ IF WebhookConfigMissing
       THEN /\ pc' = "returned"
            /\ UNCHANGED << error, logger, discoverCalls >>
       ELSE IF noOneSecretProvided
         THEN /\ pc' = "failed"
              /\ error' = "missing stripe webhook secret"
              /\ logger' = Append(logger,
                   [level |-> "error", msg |-> "missing stripe webhook secret",
                    arg |-> None])
              /\ UNCHANGED discoverCalls
         ELSE /\ pc' = "awaitService"
              /\ logger' = Append(logger,
                   [level |-> "log",
                    msg |-> "Initializing Stripe Module for webhooks",
                    arg |-> None])
              /\ discoverCalls' = Append(discoverCalls, "STRIPE_WEBHOOK_SERVICE")
              /\ UNCHANGED error
  /\ UNCHANGED << environment, hydrated, webhookHandlers, ConnectWebhookHandlers,
                  stripeWebhookService, calls >>

\* variant: the instanceof check is missing
ServiceFoundAny == serviceProviders # <<>>

\* lines 111-122: const [stripeWebhookService] = providers.map(instance)
ServiceFound ==
  /\ serviceProviders # <<>>
  /\ Head(serviceProviders) = "StripeWebhookService"

\* lines 111-127: the service check, then the primary discovery is started
ResolveService ==
  /\ pc = "awaitService"
  /\ IF ~ServiceFound
       THEN /\ pc' = "failed"
            /\ error' = "Could not find instance of Stripe Webhook Service"
            /\ UNCHANGED discoverCalls
       ELSE /\ pc' = "awaitPrimary"
            /\ discoverCalls' = Append(discoverCalls, STRIPE_WEBHOOK_HANDLER)
            /\ UNCHANGED error
  /\ UNCHANGED << environment, hydrated, logger, webhookHandlers,
                  ConnectWebhookHandlers, stripeWebhookService, calls >>

\* lines 124-180: primary table built, handleWebhook installed, connect
\* discovery started
WirePrimary ==
  /\ pc = "awaitPrimary"
  /\ LET eventHandlerMeta == providerMethodsWithMetaAtKey(STRIPE_WEBHOOK_HANDLER)
     IN  /\ webhookHandlers' = BuildHandlers(eventHandlerMeta)
         /\ logger' = logger \o RegisterLogs(eventHandlerMeta,
                        "Registering Stripe webhook handlers from")
  /\ stripeWebhookService' =
       [stripeWebhookService EXCEPT !.handleWebhook = "handleWebhook"]
  /\ discoverCalls' = Append(discoverCalls, STRIPE_CONNECT_WEBHOOK_HANDLER)
  /\ pc' = "awaitConnect"
  /\ UNCHANGED << environment, hydrated, error, ConnectWebhookHandlers, calls >>

\* lines 177-227: connect table built, handleConnectWebhook installed
WireConnect ==
  /\ pc = "awaitConnect"
  /\ LET ConnectEventHandlerMeta ==
           providerMethodsWithMetaAtKey(STRIPE_CONNECT_WEBHOOK_HANDLER)
     IN  /\ ConnectWebhookHandlers' = BuildHandlers(ConnectEventHandlerMeta)
         /\ logger' = logger \o RegisterLogs(ConnectEventHandlerMeta,
                        "Registering Stripe Connect webhook handlers from")
  /\ stripeWebhookService' =
       [stripeWebhookService EXCEPT
          !.handleConnectWebhook = "ConnectHandleWebhook"]
  /\ pc' = "done"
  /\ UNCHANGED << environment, hydrated, error, discoverCalls, webhookHandlers, calls >>

\* ---------------------------------------------------------------- dispatch
logMatchingEventHandlers ==
  /\ stripeModuleConfig.webhookConfig.defined
  /\ stripeModuleConfig.webhookConfig.loggingConfiguration.logMatchingEventHandlers

\* the table a dispatch closure filters
HandlersOf(webhookType) ==
  IF webhookType = "account" THEN webhookHandlers ELSE ConnectWebhookHandlers

\* variant: find instead of filter, only the first matching handler is kept
MatchingHandlersFirstOnly(table, type) ==
  LET all == SelectSeq(table, LAMBDA x : x.key = type)
  IN  IF all = <<>> THEN <<>> ELSE << Head(all) >>

\* webhookHandlers.filter((x) => x.key === type)
MatchingHandlers(table, type) == SelectSeq(table, LAMBDA x : x.key = type)

\* variant: handlers chained one after the other, only the first is started
StartHandlersFirstOnly(handlers) ==
  [i \in DOMAIN SubSeq(handlers, 1, 1) |->
     [handler |-> handlers[i].handler, state |-> "pending"]]

\* handlers.map((x) => x.handler(webhookEvent)): one promise per handler.
\* The callable made by externalContextCreator.create is an async function,
\* so a call of it returns a promise and never throws synchronously.
StartHandlers(handlers) ==
  [i \in DOMAIN handlers |-> [handler |-> handlers[i].handler, state |-> "pending"]]

Installed(webhookType) ==
  IF webhookType = "account"
    THEN stripeWebhookService.handleWebhook = "handleWebhook"
    ELSE stripeWebhookService.handleConnectWebhook = "ConnectHandleWebhook"

\* variant: the count is logged outside the handlers.length test
handleWebhookLogsUnmatched(webhookType, type) ==
  LET handlers == MatchingHandlers(HandlersOf(webhookType), type)
  IN  [status |-> IF Len(handlers) > 0 THEN "pending" ELSE "resolved",
       webhookType |-> webhookType, type |-> type,
       promises |-> StartHandlers(handlers),
       log |-> IF logMatchingEventHandlers
                 THEN << [type |-> type, count |-> Len(handlers), started |-> 0] >>
                 ELSE <<>>]

\* variant: a misplaced else, the handlers are started only when the count
\* is not logged
handleWebhookLogOrDispatch(flag, webhookType, type) ==
  LET handlers == MatchingHandlers(HandlersOf(webhookType), type)
  IN  IF Len(handlers) > 0 /\ ~flag
        THEN [status |-> "pending", webhookType |-> webhookType, type |-> type,
              promises |-> StartHandlers(handlers), log |-> <<>>]
        ELSE [status |-> "resolved", webhookType |-> webhookType, type |-> type,
              promises |-> <<>>,
              log |-> IF Len(handlers) > 0
                        THEN << [type |-> type, count |-> Len(handlers),
                                 started |-> 0] >>
                        ELSE <<>>]

\* lines 156-172 / 209-225 up to the await, for a given value of
\* logMatchingEventHandlers: filter, log, start every handler.  A log entry
\* records how many handlers had been started when it was written.
handleWebhookWith(flag, webhookType, type) ==
  LET handlers == MatchingHandlers(HandlersOf(webhookType), type)
  IN  IF Len(handlers) > 0
        THEN [status |-> "pending", webhookType |-> webhookType, type |-> type,
              promises |-> StartHandlers(handlers),
              log |-> IF flag
                        THEN << [type |-> type, count |-> Len(handlers),
                                 started |-> 0] >>
                        ELSE <<>>]
        ELSE [status |-> "resolved", webhookType |-> webhookType, type |-> type,
              promises |-> <<>>, log |-> <<>>]

\* the closure as installed: the flag is read from the module configuration
handleWebhook(webhookType, type) ==
  handleWebhookWith(logMatchingEventHandlers, webhookType, type)

\* variant: one-shot handlers, a dispatch removes the bindings it has fired
DispatchConsumes(webhookType, type) ==
  /\ BagCardinality(calls) < MaxCalls
  /\ Installed(webhookType)
  /\ calls' = calls (+) SetToBag({handleWebhook(webhookType, type)})
  /\ webhookHandlers' =
       IF webhookType = "account"
         THEN SelectSeq(webhookHandlers, LAMBDA x : x.key # type)
         ELSE webhookHandlers
  /\ ConnectWebhookHandlers' =
       IF webhookType = "connect"
         THEN SelectSeq(ConnectWebhookHandlers, LAMBDA x : x.key # type)
         ELSE ConnectWebhookHandlers
  /\ UNCHANGED << environment, hydrated, pc, error, logger, discoverCalls,
                  stripeWebhookService >>

\* the webhook service is asked to route one event
Dispatch(webhookType, type) ==
  /\ BagCardinality(calls) < MaxCalls
  /\ Installed(webhookType)
  /\ calls' = calls (+) SetToBag({handleWebhook(webhookType, type)})
  /\ UNCHANGED << environment, hydrated, initState >>

\* call c continues as call d
Continue(c, d) == (calls (-) SetToBag({c})) (+) SetToBag({d})

\* a started handler's promise fulfils
HandlerFulfils(c, i) ==
  /\ i \in DOMAIN c.promises
  /\ c.promises[i].state = "pending"
  /\ calls' = Continue(c, [c EXCEPT !.promises[i].state = "fulfilled"])
  /\ UNCHANGED << environment, hydrated, initState >>

\* a started handler throws or its promise rejects
HandlerRejects(c, i) ==
  /\ i \in DOMAIN c.promises
  /\ c.promises[i].state = "pending"
  /\ calls' = Continue(c, [c EXCEPT !.promises[i].state = "rejected"])
  /\ UNCHANGED << environment, hydrated, initState >>

\* variant: a join that only ever reports the fulfilment of every promise
PromiseAllFulfilledOnly(promises) ==
  IF \A i \in DOMAIN promises : promises[i].state = "fulfilled"
    THEN "fulfilled"
    ELSE "pending"

\* Promise.all(promises): rejects as soon as one promise has rejected,
\* fulfils once every promise has fulfilled
PromiseAll(promises) ==
  IF \E i \in DOMAIN promises : promises[i].state = "rejected"
    THEN "rejected"
    ELSE IF \A i \in DOMAIN promises : promises[i].state = "fulfilled"
      THEN "fulfilled"
      ELSE "pending"

\* variant: one join shared by all calls, a call resumes only when the
\* handlers of every call have settled
DispatchResolvesAfterEveryCall(c) ==
  /\ c.status = "pending"
  /\ PromiseAll(c.promises) = "fulfilled"
  /\ \A d \in Calls : \A i \in DOMAIN d.promises : d.promises[i].state # "pending"
  /\ calls' = Continue(c, [c EXCEPT !.status = "resolved"])
  /\ UNCHANGED << environment, hydrated, initState >>

\* line 170 / 223: await Promise.all(...) resumes and the call resolves
DispatchResolves(c) ==
  /\ c.status = "pending"
  /\ PromiseAll(c.promises) = "fulfilled"
  /\ calls' = Continue(c, [c EXCEPT !.status = "resolved"])
  /\ UNCHANGED << environment, hydrated, initState >>

\* line 170 / 223: await Promise.all(...) throws and the call rejects
DispatchRejects(c) ==
  /\ c.status = "pending"
  /\ PromiseAll(c.promises) = "rejected"
  /\ calls' = Continue(c, [c EXCEPT !.status = "rejected"])
  /\ UNCHANGED << environment, hydrated, initState >>

\* ------------------------------------------------- StripePayloadService
\* a signature is named after the secret it was computed with; "forged" was
\* computed with a secret the application never had
Signatures == {"whsec_a", "whsec_c", "", "forged"}

\* constructor, lines 26-27: config.webhookConfig?.stripeSecrets.account || ''
stripeWebhookSecret ==
  IF ~stripeModuleConfig.webhookConfig.defined
       \/ Falsy(stripeModuleConfig.webhookConfig.stripeSecrets.account)
    THEN ""
    ELSE stripeModuleConfig.webhookConfig.stripeSecrets.account

\* constructor, lines 28-29: config.webhookConfig?.stripeSecrets.connect || ''
stripeConnectWebhookSecret ==
  IF ~stripeModuleConfig.webhookConfig.defined
       \/ Falsy(stripeModuleConfig.webhookConfig.stripeSecrets.connect)
    THEN ""
    ELSE stripeModuleConfig.webhookConfig.stripeSecrets.connect

\* stripeClient.webhooks.constructEvent(payload, signature, secret): the
\* decoded event when the signature was computed with the secret, a thrown
\* verification error otherwise
constructEvent(payload, signature, secret) ==
  IF signature = secret
    THEN [ok |-> TRUE, type |-> payload]
    ELSE [ok |-> FALSE, type |-> None]

\* variant: the two branches of the conditional are swapped
SecretForSwapped(webhookType) ==
  IF webhookType = "account"
    THEN stripeConnectWebhookSecret
    ELSE stripeWebhookSecret

\* line 37: webhookType === "account" ? stripeWebhookSecret : stripeConnectWebhookSecret
SecretFor(webhookType) ==
  IF webhookType = "account"
    THEN stripeWebhookSecret
    ELSE stripeConnectWebhookSecret

\* lines 32-39: the verifier is called with the secret of the namespace and
\* what it returns or throws is what the caller gets
tryHydratePayload(signature, payload, webhookType) ==
  /\ hydrated' =
       [called |-> TRUE, webhookType |-> webhookType, signature |-> signature,
        payload |-> payload, secret |-> SecretFor(webhookType),
        result |-> constructEvent(payload, signature, SecretFor(webhookType))]
  /\ UNCHANGED << environment, initState, calls >>

\* ------------------------------------------------------------ specification
Next ==
  \/ Validate
  \/ ResolveService
  \/ WirePrimary
  \/ WireConnect
  \/ \E t \in StripeWebhookType, e \in EventTypes : Dispatch(t, e)
  \/ \E c \in Calls, i \in 1..MaxMethods : HandlerFulfils(c, i)
  \/ \E c \in Calls, i \in 1..MaxMethods : HandlerRejects(c, i)
  \/ \E c \in Calls : DispatchResolves(c)
  \/ \E c \in Calls : DispatchRejects(c)

Spec == Init /\ [][Next]_vars

\* the event loop runs every continuation that is ready, and LiveSpec
\* assumes that every started handler settles
Fairness ==
  /\ WF_vars(Validate) /\ WF_vars(ResolveService)
  /\ WF_vars(WirePrimary) /\ WF_vars(WireConnect)
  /\ WF_vars(\E c \in Calls : DispatchResolves(c))
  /\ WF_vars(\E c \in Calls : DispatchRejects(c))
  /\ WF_vars(\E c \in Calls, i \in 1..MaxMethods :
               HandlerFulfils(c, i) \/ HandlerRejects(c, i))

\* the runs in which the module is configured so that dispatch can happen
LiveInit ==
  /\ Init
  /\ stripeModuleConfig.webhookConfig.defined
  /\ stripeModuleConfig.webhookConfig.stripeSecrets =
       [account |-> "whsec_a", connect |-> "whsec_c"]
  /\ stripeModuleConfig.webhookConfig.loggingConfiguration.logMatchingEventHandlers
  /\ serviceProviders = <<"StripeWebhookService">>

LiveSpec == LiveInit /\ [][Next]_vars /\ Fairness

\* the payload service on its own: it depends on the configuration only
HydrateNext ==
  \E s \in Signatures, p \in EventTypes, t \in StripeWebhookType :
    tryHydratePayload(s, p, t)

HydrateSpec == Init /\ [][HydrateNext]_vars

\* ----------------------------------------------------------- vocabulary
\* the marker whose discovery pass fills the table of a namespace
MarkerOf(webhookType) ==
  IF webhookType = "account"
    THEN STRIPE_WEBHOOK_HANDLER
    ELSE STRIPE_CONNECT_WEBHOOK_HANDLER

Bound(m) == [instance |-> m.instance, methodName |-> m.methodName]

\* the discovered methods tagged for the namespace with the event type
Tagged(webhookType, type) ==
  SelectSeq(container, LAMBDA m : m.meta[MarkerOf(webhookType)] = type)

\* how many times call c invoked the handler bound to method m
InvokedTimes(c, m) ==
  Len(SelectSeq(c.promises, LAMBDA p : p.handler = Bound(m)))

\* the bindings of a table that are bound to method m
BindingsOf(table, m) == SelectSeq(table, LAMBDA x : x.handler = Bound(m))

Settled(p) == p.state \in {"fulfilled", "rejected"}

Completed(c) == c.status \in {"resolved", "rejected"}

Ready == pc = "done"

NothingWired ==
  /\ webhookHandlers = <<>>
  /\ ConnectWebhookHandlers = <<>>
  /\ stripeWebhookService.handleWebhook = "stub"
  /\ stripeWebhookService.handleConnectWebhook = "stub"

NoHandlerDiscovery ==
  \A i \in DOMAIN discoverCalls : discoverCalls[i] \notin Markers

Secrets == stripeModuleConfig.webhookConfig.stripeSecrets

NeitherSecretSet ==
  /\ stripeModuleConfig.webhookConfig.defined
  /\ Secrets.account \in {None, ""}
  /\ Secrets.connect \in {None, ""}

OnlyPrimarySecretSet ==
  /\ stripeModuleConfig.webhookConfig.defined
  /\ Secrets.account \notin {None, ""}
  /\ Secrets.connect \in {None, ""}

\* ------------------------------------------------------------------ claims

\* C1 (as stated): when one of the N >= 1 handlers matching an event
\* rejects, every one of the N handlers has still been invoked and the
\* dispatch call does not reject.
C1_RejectingHandlerNeverRejectsDispatch ==
  \A c \in Calls :
    (\E i \in DOMAIN c.promises : c.promises[i].state = "rejected") =>
      /\ Len(c.promises) = Len(Tagged(c.webhookType, c.type))
      /\ c.status # "rejected"

\* C2: for an event whose type matches N >= 1 handlers of the dispatched
\* namespace, every matching handler is invoked exactly once, no other
\* handler is invoked, and the call resolves only once all N have settled.
C2_EachMatchingHandlerOnce ==
  \A c \in Calls :
    Len(Tagged(c.webhookType, c.type)) >= 1 =>
      /\ Len(c.promises) = Len(Tagged(c.webhookType, c.type))
      /\ \A m \in Range(container) :
           InvokedTimes(c, m) =
             IF m.meta[MarkerOf(c.webhookType)] = c.type THEN 1 ELSE 0
      /\ c.status = "resolved" =>
           \A i \in DOMAIN c.promises : Settled(c.promises[i])

\* a resolved dispatch that invoked the handlers of two different components
C2_Witness ==
  \E c \in Calls :
    /\ c.status = "resolved"
    /\ Len(c.promises) = 2
    /\ c.promises[1].handler.instance # c.promises[2].handler.instance

\* C3 (as stated): a dispatch call has not completed, by resolving or by
\* rejecting, while a handler it started is still running.
C3_NoCompletionWhileHandlerRuns ==
  \A c \in Calls :
    Completed(c) => \A i \in DOMAIN c.promises : Settled(c.promises[i])

\* C4: with a webhook configuration in which neither secret is set,
\* onModuleInit can only fail with the missing-secret error; it makes no
\* discovery call, installs no dispatch function and never gets to Ready.
C4_NoSecretsFailsBeforeDiscovery ==
  NeitherSecretSet =>
    /\ pc \in {"start", "failed"}
    /\ pc = "failed" => error = "missing stripe webhook secret"
    /\ discoverCalls = <<>>
    /\ NothingWired
    /\ calls = EmptyBag

C4_Witness ==
  /\ NeitherSecretSet
  /\ Secrets.account = ""
  /\ pc = "failed"
  /\ container # <<>>
  /\ serviceProviders = <<"StripeWebhookService">>

\* C5: an event whose type matches no handler of the dispatched namespace
\* resolves at once, invokes no handler and logs nothing, and the dispatch
\* step changes nothing but the record of the call itself.
C5_UnmatchedEventIsNoOp ==
  /\ [](\A c \in Calls :
          Len(Tagged(c.webhookType, c.type)) = 0 =>
            /\ c.status = "resolved"
            /\ c.promises = <<>>
            /\ c.log = <<>>)
  /\ [][BagCardinality(calls') > BagCardinality(calls) =>
          UNCHANGED << environment, hydrated, initState >>]_vars

\* an unmatched event dispatched while handlers are registered for other
\* types and the count log is switched on
C5_Witness ==
  /\ logMatchingEventHandlers
  /\ webhookHandlers # <<>>
  /\ \E c \in Calls :
       /\ c.webhookType = "account"
       /\ Len(Tagged(c.webhookType, c.type)) = 0
       /\ c.status = "resolved"

C7_OnlyConfiguredNamespaceDiscovered ==
  OnlyPrimarySecretSet =>
    /\ ConnectWebhookHandlers = <<>>
    /\ \A i \in DOMAIN discoverCalls :
         discoverCalls[i] # STRIPE_CONNECT_WEBHOOK_HANDLER
    /\ \A c \in Calls : c.webhookType = "connect" => c.promises = <<>>

\* C7 (amended): with only the primary secret configured both discovery
\* passes still run; once initialization is done each table holds exactly
\* the methods tagged with its marker, and a dispatch on either namespace
\* invokes each method tagged for that namespace and type exactly once.
C7_BothNamespacesDiscovered ==
  OnlyPrimarySecretSet =>
    /\ Ready =>
         /\ discoverCalls = << "STRIPE_WEBHOOK_SERVICE", STRIPE_WEBHOOK_HANDLER,
                               STRIPE_CONNECT_WEBHOOK_HANDLER >>
         /\ \A t \in StripeWebhookType, m \in Range(container) :
              BindingsOf(HandlersOf(t), m) =
                IF m.meta[MarkerOf(t)] = None
                  THEN <<>>
                  ELSE << [key |-> m.meta[MarkerOf(t)], handler |-> Bound(m)] >>
    /\ \A c \in Calls, m \in Range(container) :
         InvokedTimes(c, m) =
           IF m.meta[MarkerOf(c.webhookType)] = c.type THEN 1 ELSE 0

\* the scenario: one component with charge.succeeded tagged for primary and
\* for connect, only the primary secret set, one dispatch on each namespace
C7_Witness ==
  /\ OnlyPrimarySecretSet
  /\ Ready
  /\ container = << MethodPool[1], MethodPool[2] >>
  /\ \E c \in Calls :
       /\ c.webhookType = "account" /\ c.type = "charge.succeeded"
       /\ Len(c.promises) = 1
       /\ c.promises[1].handler.methodName = "onCharge"
  /\ \E c \in Calls :
       /\ c.webhookType = "connect" /\ c.type = "charge.succeeded"
       /\ Len(c.promises) = 1
       /\ c.promises[1].handler.methodName = "onConnectCharge"

\* C8: without any webhook configuration onModuleInit returns at once: no
\* error, no lookup of the webhook service, no discovery, nothing installed.
C8_NoWebhookConfigIsNoOp ==
  ~stripeModuleConfig.webhookConfig.defined =>
    /\ pc \in {"start", "returned"}
    /\ error = None
    /\ logger = <<>>
    /\ discoverCalls = <<>>
    /\ NothingWired
    /\ calls = EmptyBag

C8_Witness ==
  /\ ~stripeModuleConfig.webhookConfig.defined
  /\ pc = "returned"
  /\ container # <<>>
  /\ serviceProviders = <<"StripeWebhookService">>

\* C9: with at least one secret set but no StripeWebhookService instance
\* first among the discovered providers, onModuleInit fails with the
\* missing-service error before any handler discovery and before any
\* dispatch function is installed.
C9_MissingServiceFailsBeforeDiscovery ==
  ( /\ stripeModuleConfig.webhookConfig.defined
    /\ ~NeitherSecretSet
    /\ (serviceProviders = <<>> \/ serviceProviders[1] # "StripeWebhookService") ) =>
    /\ pc \in {"start", "awaitService", "failed"}
    /\ pc = "failed" =>
         error = "Could not find instance of Stripe Webhook Service"
    /\ NoHandlerDiscovery
    /\ NothingWired
    /\ calls = EmptyBag

C9_Witness ==
  /\ pc = "failed"
  /\ error = "Could not find instance of Stripe Webhook Service"
  /\ serviceProviders = <<"OtherProvider">>
  /\ container # <<>>

\* C10: when every started handler settles, every dispatch call completes,
\* whatever the outcomes of its handlers: from some point on no dispatch
\* call is left pending.
C10_DispatchEventuallyCompletes ==
  <>[](\A c \in Calls : c.status # "pending")

\* a completed dispatch whose handlers had mixed outcomes
C10_Witness ==
  \E c \in Calls :
    /\ Completed(c)
    /\ \A i \in DOMAIN c.promises : Settled(c.promises[i])
    /\ \E i \in DOMAIN c.promises : c.promises[i].state = "fulfilled"
    /\ \E i \in DOMAIN c.promises : c.promises[i].state = "rejected"


\* C11 (as stated): no dispatch call is accepted, and so none routes an
\* event to handlers, before onModuleInit has completed.
C11_NoDispatchBeforeReady ==
  [][BagCardinality(calls') > BagCardinality(calls) => Ready]_vars

\* C12: whatever the state of its promises, a dispatch call has started
\* every handler matching its event: a handler that has not settled keeps
\* no sibling from being started.
C12_AllHandlersStartedTogether ==
  \A c \in Calls :
    LET matching == Tagged(c.webhookType, c.type)
    IN  \A k \in DOMAIN matching :
          \E i \in DOMAIN c.promises : c.promises[i].handler = Bound(matching[k])

\* the first handler has not settled and its sibling has already finished
C12_Witness ==
  \E c \in Calls :
    /\ Len(c.promises) = 2
    /\ c.status = "pending"
    /\ c.promises[1].state = "pending"
    /\ c.promises[2].state = "fulfilled"

\* C13: with at least one secret set and the webhook service found,
\* onModuleInit does not fail, and once it has completed both discovery
\* passes have run, both dispatch functions are installed and every method
\* is registered in the table of each marker it carries, whichever secrets
\* are set.
C13_BothPassesUnconditional ==
  ( /\ stripeModuleConfig.webhookConfig.defined
    /\ ~NeitherSecretSet
    /\ serviceProviders # <<>>
    /\ serviceProviders[1] = "StripeWebhookService" ) =>
    /\ pc # "failed"
    /\ Ready =>
         /\ \A k \in Markers :
              Cardinality({ i \in DOMAIN discoverCalls : discoverCalls[i] = k }) = 1
         /\ stripeWebhookService =
              [handleWebhook |-> "handleWebhook",
               handleConnectWebhook |-> "ConnectHandleWebhook"]
         /\ \A t \in StripeWebhookType, m \in Range(container) :
              m.meta[MarkerOf(t)] # None =>
                \E i \in DOMAIN HandlersOf(t) :
                  /\ HandlersOf(t)[i].handler = Bound(m)
                  /\ HandlersOf(t)[i].key = m.meta[MarkerOf(t)]

\* only the connect secret is set and primary handlers are registered
C13_Witness ==
  /\ Ready
  /\ Secrets.account = None
  /\ Secrets.connect = "whsec_c"
  /\ webhookHandlers # <<>>
  /\ ConnectWebhookHandlers # <<>>


\* C14: a dispatch call waits for its own handlers only: whatever the other
\* calls are doing, a pending call whose handlers have all fulfilled can
\* resolve, and one with a rejected handler can reject.
C14_CallsAreIndependent ==
  \A c \in Calls :
    c.status = "pending" =>
      /\ (\A i \in DOMAIN c.promises : c.promises[i].state = "fulfilled")
           => ENABLED DispatchResolves(c)
      /\ (\E i \in DOMAIN c.promises : c.promises[i].state = "rejected")
           => ENABLED DispatchRejects(c)

\* one call is suspended on a handler that has not settled, another call
\* has all its handlers fulfilled and is about to resolve
C14_Witness ==
  \E c, d \in Calls :
    /\ c.status = "pending"
    /\ \E i \in DOMAIN c.promises : c.promises[i].state = "pending"
    /\ d.status = "pending"
    /\ \A i \in DOMAIN d.promises : d.promises[i].state = "fulfilled"


\* C15: once initialization has completed no step changes either table,
\* whatever is dispatched and however the handlers end, and every binding
\* is filed under the event type its method was tagged with.
C15_TablesReadOnlyAfterBoot ==
  /\ [][Ready => UNCHANGED << webhookHandlers, ConnectWebhookHandlers >>]_vars
  /\ [](\A t \in StripeWebhookType :
          \A i \in DOMAIN HandlersOf(t) :
            \E m \in Range(container) :
              /\ HandlersOf(t)[i].handler = Bound(m)
              /\ HandlersOf(t)[i].key = m.meta[MarkerOf(t)])

\* both tables filled, after a dispatch with a failed handler and an
\* unmatched dispatch
C15_Witness ==
  /\ Ready
  /\ webhookHandlers # <<>>
  /\ ConnectWebhookHandlers # <<>>
  /\ \E c \in Calls : c.status = "rejected"
  /\ \E c \in Calls : c.status = "resolved" /\ c.promises = <<>>


\* C16 (as stated): in each installed table the bindings of an event type
\* stand in the order in which discovery returned their methods, also when
\* methods of components with different class names are interleaved.
C16_TableInDiscoveryOrder ==
  \A t \in StripeWebhookType :
    Installed(t) =>
      \A e \in { HandlersOf(t)[i].key : i \in DOMAIN HandlersOf(t) } :
        LET bindings == MatchingHandlers(HandlersOf(t), e)
            discovered == Tagged(t, e)
        IN  /\ Len(bindings) = Len(discovered)
            /\ \A i \in DOMAIN bindings : bindings[i].handler = Bound(discovered[i])


\* C18: for every event and table, the dispatch closure starts the same
\* handlers and leaves the call in the same state with the count log on and
\* off; with the log off nothing is written, with it on exactly one entry
\* with the type and the number of matching handlers is written, before any
\* handler is started, and only when a handler matches.
C18_LogFlagDoesNotAlterRouting ==
  /\ \A t \in StripeWebhookType, e \in EventTypes :
       Installed(t) =>
         LET on == handleWebhookWith(TRUE, t, e)
             off == handleWebhookWith(FALSE, t, e)
             n == Len(Tagged(t, e))
         IN  /\ on.promises = off.promises
             /\ on.status = off.status
             /\ off.log = <<>>
             /\ on.log = IF n >= 1
                           THEN << [type |-> e, count |-> n, started |-> 0] >>
                           ELSE <<>>
  /\ \A c \in Calls :
       /\ Len(c.log) <= 1
       /\ c.log # <<>> <=>
            (stripeModuleConfig.webhookConfig.loggingConfiguration.logMatchingEventHandlers
               /\ Len(Tagged(c.webhookType, c.type)) >= 1)

\* a logged dispatch that started two handlers and resolved
C18_Witness ==
  \E c \in Calls :
    /\ c.log = << [type |-> "invoice.paid", count |-> 2, started |-> 0] >>
    /\ Len(c.promises) = 2
    /\ c.status = "resolved"


\* C19: tryHydratePayload calls the verifier with the configured secret of
\* the requested namespace, or with the empty string when that secret is
\* not configured, never with the secret of the other namespace, and hands
\* back the verifier's event or failure as it is.
C19_HydrateUsesNamespaceSecret ==
  hydrated.called =>
    LET configured == IF hydrated.webhookType = "account"
                        THEN Secrets.account ELSE Secrets.connect
        other == IF hydrated.webhookType = "account"
                   THEN Secrets.connect ELSE Secrets.account
        expected == IF configured \in {None, ""} THEN "" ELSE configured
    IN  /\ hydrated.secret = expected
        /\ other \notin {None, ""} => hydrated.secret # other
        /\ hydrated.result.ok <=> hydrated.signature = expected
        /\ hydrated.result.type =
             IF hydrated.result.ok THEN hydrated.payload ELSE None

\* a connect payload signed with the account secret while only the account
\* secret is configured: verified against the empty string, and refused
C19_Witness ==
  /\ hydrated.called
  /\ hydrated.webhookType = "connect"
  /\ Secrets.account = "whsec_a"
  /\ Secrets.connect = None
  /\ hydrated.signature = "whsec_a"
  /\ hydrated.secret = ""
  /\ ~hydrated.result.ok

====
